---- MODULE Spec2Model ----
(***************************************************************************)
(* A model of the BulletJournal class (src/src/index.js).                  *)
(*                                                                         *)
(* JavaScript strings that the code inspects character by character (date  *)
(* keys, tags) are sequences of one-character strings.  A JavaScript       *)
(* object used as a map is a sequence of [k, v] records in insertion       *)
(* order, which is the order Object.keys / Object.entries enumerate        *)
(* string keys in.  Instants are counted in whole UTC days since           *)
(* 1970-01-01: every instant the code subtracts is a multiple of           *)
(* 86400000 ms away from another one, so the day count is exact.           *)
(***************************************************************************)
EXTENDS Integers, Sequences, FiniteSets, TLC

VARIABLES
    dailyLogs,    \* this.data.dailyLogs
    monthlyLogs,  \* this.data.monthlyLogs
    yearlyLogs,   \* this.data.yearlyLogs
    habits,       \* this.data.habits
    habitLogs,    \* this.data.habitLogs
    stored,       \* localStorage[storageKey]: the persisted snapshot
    today,        \* the clock: floor(Date.now() / 86400000)
    lenient,      \* the engine's Date parser rolls a day past the month's end over
    storage,      \* window.localStorage: "available", "unavailable" or "full"
    missing,      \* the collections this.data has no property for
    logged,       \* history: per habit, the dates logHabit accepted since creation
    ret           \* the last call: its name, arguments, result or error

vars == <<dailyLogs, monthlyLogs, yearlyLogs, habits, habitLogs,
          stored, today, lenient, storage, missing, logged, ret>>

\* ------------------------------------------------------------------ bounds

\* How many days the clock may advance.
MaxTicks == 1
\* How many HabitLog entries one habit may hold.
MaxLogs == 3
\* The largest window the completion rate alone is computed for.
MaxRate == 80

\* ----------------------------------------------------------------- strings

Range(s) == {s[i] : i \in 1..Len(s)}

\* The characters the model uses, in UTF-16 code unit order.
Alphabet == <<"-", "/", "0", "1", "2", "3", "4", "5", "6", "7", "8", "9",
              "H", "K", "O", "R", "W", "e", "h", "k", "m", "o", "r", "w">>

CharCode(c) == CHOOSE i \in 1..Len(Alphabet) : Alphabet[i] = c

DigitChars == <<"0", "1", "2", "3", "4", "5", "6", "7", "8", "9">>

IsDigit(c) == c \in Range(DigitChars)

DigitVal(c) == (CHOOSE i \in 1..10 : DigitChars[i] = c) - 1

\* a < b as JavaScript compares two strings
RECURSIVE StrLt(_, _)
StrLt(a, b) ==
    IF b = <<>> THEN FALSE
    ELSE IF a = <<>> THEN TRUE
    ELSE IF Head(a) = Head(b) THEN StrLt(Tail(a), Tail(b))
    ELSE CharCode(Head(a)) < CharCode(Head(b))

StrLeq(a, b) == a = b \/ StrLt(a, b)

ToLowerChar(c) ==
    CASE c = "H" -> "h"
      [] c = "K" -> "k"
      [] c = "O" -> "o"
      [] c = "R" -> "r"
      [] c = "W" -> "w"
      [] OTHER -> c

\* String.prototype.toLowerCase
ToLowerCase(s) == [i \in 1..Len(s) |-> ToLowerChar(s[i])]

\* ----------------------------------------------------------------- objects

Keys(o) == [i \in 1..Len(o) |-> o[i].k]

KeySet(o) == {o[i].k : i \in 1..Len(o)}

Has(o, key) == key \in KeySet(o)

Get(o, key) == o[CHOOSE i \in 1..Len(o) : o[i].k = key].v

\* o[key] = val: an existing key keeps its place, a new one goes last
Put(o, key, val) ==
    IF Has(o, key)
    THEN [i \in 1..Len(o) |-> IF o[i].k = key THEN [k |-> key, v |-> val] ELSE o[i]]
    ELSE Append(o, [k |-> key, v |-> val])

\* delete o[key]
Del(o, key) == SelectSeq(o, LAMBDA e : e.k # key)

\* {...existing, ...updates}
Spread(existing, updates) ==
    [f \in DOMAIN existing \cup DOMAIN updates |->
        IF f \in DOMAIN updates THEN updates[f] ELSE existing[f]]

\* Two of the property names that an object literal, and an object JSON.parse
\* builds, inherits from Object.prototype. Each reads as a function: a truthy
\* value with no enumerable property of its own, on a writable property, so
\* that an assignment to the name makes an own property of the object.
KeyConstructor == <<"c", "o", "n", "s", "t", "r", "u", "c", "t", "o", "r">>
KeyToString == <<"t", "o", "S", "t", "r", "i", "n", "g">>
ObjectPrototype == {KeyConstructor, KeyToString}

\* o[key] is truthy: an own property (every stored value is an object) or an
\* inherited one
Truthy(o, key) == Has(o, key) \/ key \in ObjectPrototype

\* {...o[key]}, for a truthy o[key]: the own enumerable properties of the value
SpreadOf(o, key) == IF Has(o, key) THEN Get(o, key) ELSE <<>>

RECURSIVE InsertAsc(_, _)
InsertAsc(s, x) ==
    IF s = <<>> THEN <<x>>
    ELSE IF StrLt(x, Head(s)) THEN <<x>> \o s
    ELSE <<Head(s)>> \o InsertAsc(Tail(s), x)

\* Array.prototype.sort with the default comparator, on strings
RECURSIVE Sort(_)
Sort(s) == IF s = <<>> THEN <<>> ELSE InsertAsc(Sort(Tail(s)), Head(s))

\* Array.prototype.reverse
Reverse(s) == [i \in 1..Len(s) |-> s[Len(s) + 1 - i]]

\* ------------------------------------------------------------------- dates

IsLeap(y) == (y % 4 = 0 /\ y % 100 # 0) \/ y % 400 = 0

DaysInMonth(y, m) ==
    IF m = 2 THEN (IF IsLeap(y) THEN 29 ELSE 28)
    ELSE IF m \in {4, 6, 9, 11} THEN 30 ELSE 31

\* The day count of the calendar date y-m-d (proleptic Gregorian, UTC).
DaysFromCivil(y, m, d) ==
    LET yy  == IF m <= 2 THEN y - 1 ELSE y
        era == yy \div 400
        yoe == yy - era * 400
        mp  == IF m > 2 THEN m - 3 ELSE m + 9
        doy == (153 * mp + 2) \div 5 + d - 1
        doe == yoe * 365 + yoe \div 4 - yoe \div 100 + doy
    IN  era * 146097 + doe - 719468

\* The calendar date <<y, m, d>> of a day count.
CivilFromDays(n) ==
    LET z   == n + 719468
        era == z \div 146097
        doe == z - era * 146097
        yoe == (doe - doe \div 1460 + doe \div 36524 - doe \div 146096) \div 365
        doy == doe - (365 * yoe + yoe \div 4 - yoe \div 100)
        mp  == (5 * doy + 2) \div 153
        d   == doy - (153 * mp + 2) \div 5 + 1
        m   == IF mp < 10 THEN mp + 3 ELSE mp - 9
        y   == yoe + era * 400 + (IF m <= 2 THEN 1 ELSE 0)
    IN  <<y, m, d>>

Pad2(n) == <<DigitChars[((n \div 10) % 10) + 1], DigitChars[(n % 10) + 1]>>

Pad4(n) == Pad2(n \div 100) \o Pad2(n % 100)

\* The text YYYY-MM-DD of the numbers y, m, d, whatever they are.
DateText(y, m, d) == Pad4(y) \o <<"-">> \o Pad2(m) \o <<"-">> \o Pad2(d)

\* new Date(ms).toISOString().split('T')[0], for the instant's day count n
ToISODate(n) ==
    LET c == CivilFromDays(n) IN DateText(c[1], c[2], c[3])

Num2(s, i) == DigitVal(s[i]) * 10 + DigitVal(s[i + 1])

\* isValidDate: /^\d{4}-\d{2}-\d{2}$/
isValidDate(s) ==
    /\ Len(s) = 10
    /\ \A i \in {1, 2, 3, 4, 6, 7, 9, 10} : IsDigit(s[i])
    /\ s[5] = "-" /\ s[8] = "-"

\* isValidMonth: /^\d{4}-\d{2}$/
isValidMonth(s) ==
    /\ Len(s) = 7
    /\ \A i \in {1, 2, 3, 4, 6, 7} : IsDigit(s[i])
    /\ s[5] = "-"

\* isValidYear: /^\d{4}$/
isValidYear(s) ==
    /\ Len(s) = 4
    /\ \A i \in 1..4 : IsDigit(s[i])

\* s names a day of the calendar
IsCalendarDate(s) ==
    /\ isValidDate(s)
    /\ LET y == Num2(s, 1) * 100 + Num2(s, 3)
           m == Num2(s, 6)
           d == Num2(s, 9)
       IN  m \in 1..12 /\ d \in 1..DaysInMonth(y, m)

\* new Date(s) for a string s of the form YYYY-MM-DD: [ok, t], ok = FALSE for
\* an Invalid Date (time value NaN).  A day of 29..31 past the end of the
\* month is the engine's choice: rolled over into the next month, or NaN.
DateParse(s, roll) ==
    LET y == Num2(s, 1) * 100 + Num2(s, 3)
        m == Num2(s, 6)
        d == Num2(s, 9)
    IN  IF m \in 1..12 /\ d \in 1..DaysInMonth(y, m)
        THEN [ok |-> TRUE, t |-> DaysFromCivil(y, m, d)]
        ELSE IF roll /\ m \in 1..12 /\ d \in 1..31
        THEN [ok |-> TRUE, t |-> DaysFromCivil(y, m, 1) + d - 1]
        ELSE [ok |-> FALSE, t |-> 0]

\* ------------------------------------------------- double-precision numbers

(***************************************************************************)
(* A positive IEEE-754 double is [hi, mid, lo, e]: its 53 significant bits *)
(* are the 17 bits of hi (the first of them 1), the 18 of mid and the 18   *)
(* of lo, M = hi * 2^36 + mid * 2^18 + lo, and its value is M * 2^(e-53).  *)
(* Zero has hi = 0.  Every operation rounds to nearest, ties to even, as   *)
(* the language's Number arithmetic does.  The operands of this model are  *)
(* integers below 2^12, so no intermediate value passes 2^31.              *)
(***************************************************************************)

RECURSIVE Pow2(_)
Pow2(n) == IF n = 0 THEN 1 ELSE 2 * Pow2(n - 1)

Limb == Pow2(18)

FZero == [hi |-> 0, mid |-> 0, lo |-> 0, e |-> 0]

\* the double next above f (the significand plus one unit in the last place)
FNextUp(f) ==
    IF f.lo + 1 < Limb THEN [f EXCEPT !.lo = f.lo + 1]
    ELSE IF f.mid + 1 < Limb THEN [f EXCEPT !.lo = 0, !.mid = f.mid + 1]
    ELSE IF f.hi + 1 < Pow2(17) THEN [f EXCEPT !.lo = 0, !.mid = 0, !.hi = f.hi + 1]
    ELSE [hi |-> Pow2(16), mid |-> 0, lo |-> 0, e |-> f.e + 1]

\* f, the 53 bits kept, rounded for what was cut off: half, the first bit cut
\* off; more, whether a later one is set
FRound(f, half, more) ==
    IF half = 1 /\ (more \/ (f.lo % 2) = 1) THEN FNextUp(f) ELSE f

\* a / b = (a' / b') * 2^e with 1/2 <= a' / b' < 1
RECURSIVE Normalize(_, _, _)
Normalize(a, b, e) ==
    IF a >= b THEN Normalize(a, 2 * b, e + 1)
    ELSE IF 2 * a < b THEN Normalize(2 * a, b, e - 1)
    ELSE [a |-> a, b |-> b, e |-> e]

\* the double a / b of two integers a >= 0, b > 0: long division, 17 + 18 + 18
\* bits of quotient, then the rounding
FDiv(a, b) ==
    IF a = 0 THEN FZero
    ELSE LET n  == Normalize(a, b, 0)
             d1 == (n.a * Pow2(17)) \div n.b
             r1 == (n.a * Pow2(17)) % n.b
             d2 == (r1 * Limb) \div n.b
             r2 == (r1 * Limb) % n.b
             d3 == (r2 * Limb) \div n.b
             r3 == (r2 * Limb) % n.b
         IN  FRound([hi |-> d1, mid |-> d2, lo |-> d3, e |-> n.e],
                    IF 2 * r3 >= n.b THEN 1 ELSE 0,
                    ((2 * r3) % n.b) # 0)

\* how many bits n >= 2^16 has beyond 17
RECURSIVE ExtraBits(_)
ExtraBits(n) == IF n < Pow2(17) THEN 0 ELSE 1 + ExtraBits(n \div 2)

\* the double f * k for an integer 1 <= k < 2^7: the exact product in limbs,
\* shifted right by the s bits it has beyond 53, then the rounding
FMul(f, k) ==
    IF f.hi = 0 THEN f
    ELSE LET p0 == f.lo * k
             p1 == (f.mid * k) + (p0 \div Limb)
             p2 == (f.hi * k) + (p1 \div Limb)
             l0 == p0 % Limb
             l1 == p1 % Limb
             s  == ExtraBits(p2)
             w  == Pow2(s)
             cut == l0 % w
         IN  IF s = 0 THEN [hi |-> p2, mid |-> l1, lo |-> l0, e |-> f.e]
             ELSE FRound([hi |-> p2 \div w,
                          mid |-> ((p2 % w) * Limb + l1) \div w,
                          lo |-> ((l1 % w) * Limb + l0) \div w,
                          e |-> f.e + s],
                         cut \div Pow2(s - 1),
                         (cut % Pow2(s - 1)) # 0)

\* Math.round of a double 0 <= f < 2^16: the nearest integer, ties upwards
MathRound(f) ==
    IF f.hi = 0 \/ f.e < 0 THEN 0
    ELSE CASE f.e \in 0..16 ->
              (f.hi \div Pow2(17 - f.e)) + ((f.hi \div Pow2(16 - f.e)) % 2)

\* Math.round(((completedDays / days) * 100) * 10), the rate in tenths of a percent
CompletionRate(completedDays, days) ==
    MathRound(FMul(FMul(FDiv(completedDays, days), 100), 10))

\* ------------------------------------------------------------ the aggregate

\* The properties the constructor and clearStorage give this.data, in order.
Collections == <<"dailyLogs", "monthlyLogs", "yearlyLogs", "habits", "habitLogs">>

\* this.data: a property for every collection but the missing ones
Data ==
    [c \in Range(Collections) \ missing |->
        CASE c = "dailyLogs" -> dailyLogs
          [] c = "monthlyLogs" -> monthlyLogs
          [] c = "yearlyLogs" -> yearlyLogs
          [] c = "habits" -> habits
          [] c = "habitLogs" -> habitLogs]

\* The first day of the clock.
StartDay == DaysFromCivil(2025, 2, 28)

HabitIds == {"ex"}

\* The habit ids of the callers that keep more than one habit.
RegistryIds == {"ex", "read"}

\* The habitData objects callers pass to createHabit.
HabitDatas == {[name |-> "Exercise", target |-> 0]}

\* The logData objects callers pass to logHabit; value 0 is also "no value".
LogDatas == {[notes |-> "", value |-> 0]}

\* The date strings callers pass to the habit operations: the days around the
\* clock, two that no calendar has, and one that is not of the form YYYY-MM-DD.
HabitDateInputs ==
    {ToISODate(StartDay + i) : i \in -1..MaxTicks}
        \cup {DateText(2025, 2, 29), DateText(2025, 2, 99)}
        \cup {<<"2", "0", "2", "5", "-", "2", "-", "2", "8">>}

\* The tags callers pass.
TagWork == <<"W", "o", "r", "k">>
TagWORK == <<"W", "O", "R", "K">>
Tagwork == <<"w", "o", "r", "k">>
Taghome == <<"h", "o", "m", "e">>

\* The tag arrays callers pass to addDailyLog, updateDailyLog, addTags, removeTags.
TagLists == {<<TagWork>>, <<Taghome>>, <<Tagwork, Taghome>>, <<TagWork, Tagwork>>}

\* The tags callers query.
QueryTags == {TagWork, TagWORK, Tagwork, Taghome}

\* The date strings callers pass to the daily log operations: two days, a
\* thirteenth month, and a string with the wrong separators.
Date1 == DateText(2025, 11, 13)
Date2 == DateText(2025, 11, 14)
DateMonth13 == DateText(2025, 13, 1)
DateSlashes == <<"2", "0", "2", "5", "/", "1", "1", "/", "1", "3">>

\* The tasks callers pass: a string, an object with and without its fields.
TaskInputs ==
    {[isString |-> TRUE, text |-> "buy milk"],
     [isString |-> FALSE, text |-> "call", priority |-> "high", status |-> ""]}

\* An entry with nothing but tags.
TagEntry(tags) == [tasks |-> <<>>, notes |-> <<>>, events |-> <<>>, tags |-> tags]

\* An entry with one task.
TaskEntry(task) == [tasks |-> <<task>>, notes |-> <<"n">>, events |-> <<>>, tags |-> <<>>]

\* The month and year strings callers pass, one well formed and one not.
Month1 == <<"2", "0", "2", "5", "-", "1", "1">>
MonthShort == <<"2", "0", "2", "5", "-", "1">>
Year1 == <<"2", "0", "2", "5">>
YearShort == <<"2", "5">>

\* The entry callers pass to addMonthlyLog and addYearlyLog.
PeriodEntry == [goals |-> <<"g">>, overview |-> "o"]

\* --------------------------------------------------------------------- JSON

(***************************************************************************)
(* A JSON text is [ok, indent, json]: whether it is JSON at all, the       *)
(* indentation it is printed with, and the tree of values it denotes.  A   *)
(* tree node is a string, number, boolean, null, array (a sequence of      *)
(* nodes) or object (a sequence of members [k, v] in the order of the      *)
(* text).  undefined is no JSON value: it is what reading a property that  *)
(* is not there gives.                                                     *)
(***************************************************************************)

JString(s) == [t |-> "string", s |-> s]

JNumber(n) == [t |-> "number", n |-> n]

JBoolean(b) == [t |-> "boolean", b |-> b]

JNull == [t |-> "null"]

JUndefined == [t |-> "undefined"]

JArray(items) == [t |-> "array", a |-> items]

JObject(members) == [t |-> "object", m |-> members]

\* node.key, for a node that is not null or undefined
Prop(node, key) ==
    IF node.t = "object" /\ Has(node.m, key) THEN Get(node.m, key) ELSE JUndefined

\* !node
Falsy(node) ==
    \/ node.t \in {"null", "undefined"}
    \/ node.t = "boolean" /\ ~node.b
    \/ node.t = "number" /\ node.n = 0
    \/ node.t = "string" /\ Len(node.s) = 0

\* node || {}
OrEmpty(node) == IF Falsy(node) THEN JObject(<<>>) ELSE node

\* an array of strings, to JSON and back
StringsToJSON(arr) == JArray([i \in 1..Len(arr) |-> JString(arr[i])])

StringsFromJSON(node) == [i \in 1..Len(node.a) |-> node.a[i].s]

\* a task: a string as it is, an object with its properties
TaskToJSON(task) ==
    IF "isString" \in DOMAIN task THEN JString(task.text)
    ELSE JObject(<<[k |-> "text", v |-> JString(task.text)],
                   [k |-> "priority", v |-> JString(task.priority)],
                   [k |-> "status", v |-> JString(task.status)]>>)

TaskFromJSON(node) ==
    IF node.t = "string" THEN [isString |-> TRUE, text |-> node.s]
    ELSE [text |-> Prop(node, "text").s,
          priority |-> Prop(node, "priority").s,
          status |-> Prop(node, "status").s]

\* a daily log, property by property: one written before there were tags has
\* no tags property, one updateDailyLog built from an inherited name has only
\* the properties of its updates
DailyLogToJSON(log) ==
    LET Member(f, v) == IF f \in DOMAIN log THEN <<[k |-> f, v |-> v]>> ELSE <<>>
    IN  JObject(Member("date", JString(log.date))
                \o Member("tasks",
                     JArray([i \in 1..Len(log.tasks) |-> TaskToJSON(log.tasks[i])]))
                \o Member("notes", StringsToJSON(log.notes))
                \o Member("events", StringsToJSON(log.events))
                \o Member("tags", StringsToJSON(log.tags)))

DailyLogFromJSON(node) ==
    LET Field(f, v) == IF Prop(node, f).t = "undefined" THEN <<>> ELSE v
    IN  Spread(Spread(Spread(Spread(
            Field("date", [date |-> Prop(node, "date").s]),
            Field("tasks", [tasks |-> [i \in 1..Len(Prop(node, "tasks").a) |->
                                         TaskFromJSON(Prop(node, "tasks").a[i])]])),
            Field("notes", [notes |-> StringsFromJSON(Prop(node, "notes"))])),
            Field("events", [events |-> StringsFromJSON(Prop(node, "events"))])),
            Field("tags", [tags |-> StringsFromJSON(Prop(node, "tags"))]))

MonthlyLogToJSON(log) ==
    JObject(<<[k |-> "month", v |-> JString(log.month)],
              [k |-> "goals", v |-> StringsToJSON(log.goals)],
              [k |-> "tasks", v |-> StringsToJSON(log.tasks)],
              [k |-> "overview", v |-> JString(log.overview)],
              [k |-> "highlights", v |-> StringsToJSON(log.highlights)]>>)

MonthlyLogFromJSON(node) ==
    [month |-> Prop(node, "month").s,
     goals |-> StringsFromJSON(Prop(node, "goals")),
     tasks |-> StringsFromJSON(Prop(node, "tasks")),
     overview |-> Prop(node, "overview").s,
     highlights |-> StringsFromJSON(Prop(node, "highlights"))]

YearlyLogToJSON(log) ==
    JObject(<<[k |-> "year", v |-> JString(log.year)],
              [k |-> "goals", v |-> StringsToJSON(log.goals)],
              [k |-> "achievements", v |-> StringsToJSON(log.achievements)],
              [k |-> "overview", v |-> JString(log.overview)],
              [k |-> "highlights", v |-> StringsToJSON(log.highlights)]>>)

YearlyLogFromJSON(node) ==
    [year |-> Prop(node, "year").s,
     goals |-> StringsFromJSON(Prop(node, "goals")),
     achievements |-> StringsFromJSON(Prop(node, "achievements")),
     overview |-> Prop(node, "overview").s,
     highlights |-> StringsFromJSON(Prop(node, "highlights"))]

HabitToJSON(habit) ==
    JObject(<<[k |-> "id", v |-> JString(habit.id)],
              [k |-> "name", v |-> JString(habit.name)],
              [k |-> "description", v |-> JString(habit.description)],
              [k |-> "frequency", v |-> JString(habit.frequency)],
              [k |-> "target", v |-> JNumber(habit.target)],
              [k |-> "tags", v |-> StringsToJSON(habit.tags)]>>)

HabitFromJSON(node) ==
    [id |-> Prop(node, "id").s,
     name |-> Prop(node, "name").s,
     description |-> Prop(node, "description").s,
     frequency |-> Prop(node, "frequency").s,
     target |-> Prop(node, "target").n,
     tags |-> StringsFromJSON(Prop(node, "tags"))]

HabitLogToJSON(log) ==
    JObject(<<[k |-> "date", v |-> JString(log.date)],
              [k |-> "completed", v |-> JBoolean(log.completed)],
              [k |-> "notes", v |-> JString(log.notes)],
              [k |-> "value", v |-> JNumber(log.value)]>>)

HabitLogFromJSON(node) ==
    [date |-> Prop(node, "date").s,
     completed |-> Prop(node, "completed").b,
     notes |-> Prop(node, "notes").s,
     value |-> Prop(node, "value").n]

\* the logs of one habit, by date
HabitLogsToJSON(logs) ==
    JObject([i \in 1..Len(logs) |-> [k |-> logs[i].k, v |-> HabitLogToJSON(logs[i].v)]])

HabitLogsFromJSON(node) ==
    [i \in 1..Len(node.m) |-> [k |-> node.m[i].k, v |-> HabitLogFromJSON(node.m[i].v)]]

\* what one value of the collection c is in JSON, and back
ValueToJSON(c, val) ==
    CASE c = "dailyLogs" -> DailyLogToJSON(val)
      [] c = "monthlyLogs" -> MonthlyLogToJSON(val)
      [] c = "yearlyLogs" -> YearlyLogToJSON(val)
      [] c = "habits" -> HabitToJSON(val)
      [] c = "habitLogs" -> HabitLogsToJSON(val)

ValueFromJSON(c, node) ==
    CASE c = "dailyLogs" -> DailyLogFromJSON(node)
      [] c = "monthlyLogs" -> MonthlyLogFromJSON(node)
      [] c = "yearlyLogs" -> YearlyLogFromJSON(node)
      [] c = "habits" -> HabitFromJSON(node)
      [] c = "habitLogs" -> HabitLogsFromJSON(node)

\* the collection c, an object keyed by date, month, year or habit id
CollectionToJSON(c, o) ==
    JObject([i \in 1..Len(o) |-> [k |-> o[i].k, v |-> ValueToJSON(c, o[i].v)]])

CollectionFromJSON(c, node) ==
    [i \in 1..Len(node.m) |-> [k |-> node.m[i].k, v |-> ValueFromJSON(c, node.m[i].v)]]

\* JSON.stringify(d, null, indent) of an aggregate d: its properties, in order
JSONstringify(d, indent) ==
    [ok |-> TRUE, indent |-> indent,
     json |-> JObject(
         LET present == SelectSeq(Collections, LAMBDA c : c \in DOMAIN d)
         IN  [i \in 1..Len(present) |->
                 [k |-> present[i], v |-> CollectionToJSON(present[i], d[present[i]])]])]

\* JSON.parse(text): [ok, val], ok = FALSE when it throws a SyntaxError
JSONparse(text) ==
    IF text.ok THEN [ok |-> TRUE, val |-> text.json] ELSE [ok |-> FALSE, val |-> JUndefined]

\* ------------------------------------------------------------------ storage

\* The texts callers pass to importData: one that is not JSON, the texts null
\* and 42, and a document with one of the five collections.
Garbage == [ok |-> FALSE, indent |-> 0, json |-> JUndefined]
NullText == [ok |-> TRUE, indent |-> 0, json |-> JNull]
NumberText == [ok |-> TRUE, indent |-> 0, json |-> JNumber(42)]
PartialText ==
    JSONstringify(
        [dailyLogs |-> <<[k |-> Date2,
                          v |-> [date |-> Date2, tasks |-> <<>>, notes |-> <<>>,
                                 events |-> <<>>, tags |-> <<Taghome>>]]>>], 0)

ImportTexts == {Garbage, NullText, NumberText, PartialText}

\* What release 1.0.0 left in storage: daily, monthly and yearly logs only, a
\* daily log without tags and with its tasks as plain strings.
LegacySnapshot ==
    JSONstringify(
        [dailyLogs |-> <<[k |-> Date1,
                          v |-> [date |-> Date1,
                                 tasks |-> <<[isString |-> TRUE, text |-> "buy milk"]>>,
                                 notes |-> <<"n">>, events |-> <<>>]]>>,
         monthlyLogs |-> <<>>,
         yearlyLogs |-> <<>>], 0)

\* What localStorage holds under the storage key when the constructor runs:
\* nothing, the 1.0.0 snapshot, or a text that is not JSON.
StoredItems ==
    {[present |-> FALSE],
     [present |-> TRUE, data |-> LegacySnapshot],
     [present |-> TRUE, data |-> Garbage]}

\* saveToStorage: localStorage.setItem(storageKey, JSON.stringify(this.data)),
\* when there is a localStorage and setItem does not throw
saveToStorage(d) ==
    IF storage = "available"
    THEN [present |-> TRUE, data |-> JSONstringify(d, 0)]
    ELSE stored

\* ---------------------------------------------------------------- daily logs

\* what an operation that throws leaves behind
Throw(opName, error) ==
    /\ ret' = [op |-> opName, err |-> error, wrote |-> FALSE]
    /\ UNCHANGED <<dailyLogs, monthlyLogs, yearlyLogs, habits, habitLogs,
                   stored, today, lenient, storage, missing, logged>>

\* what a mutation of the daily logs ends with: saveToStorage and the return
SaveDaily(opName, date) ==
    /\ UNCHANGED <<monthlyLogs, yearlyLogs, habits, habitLogs, today, lenient, storage, missing, logged>>
    /\ stored' = saveToStorage(Data')
    /\ ret' = [op |-> opName, date |-> date, err |-> "none", wrote |-> TRUE]

normalizeTask(task) ==
    IF task.isString
    THEN [text |-> task.text, priority |-> "medium", status |-> "todo"]
    ELSE [text |-> task.text,
          priority |-> IF task.priority = "" THEN "medium" ELSE task.priority,
          status |-> IF task.status = "" THEN "todo" ELSE task.status]

\* Array.prototype.map(task => this.normalizeTask(task))
NormalizeTasks(tasks) == [i \in 1..Len(tasks) |-> normalizeTask(tasks[i])]

addDailyLog(date, entry) ==
    IF ~isValidDate(date)
    THEN /\ ret' = [op |-> "addDailyLog", date |-> date, err |-> "InvalidFormat",
                    wrote |-> FALSE]
         /\ UNCHANGED <<dailyLogs, monthlyLogs, yearlyLogs, habits, habitLogs,
                        stored, today, lenient, storage, missing, logged>>
    ELSE /\ dailyLogs' = Put(dailyLogs, date,
                [date |-> date, tasks |-> NormalizeTasks(entry.tasks),
                 notes |-> entry.notes, events |-> entry.events, tags |-> entry.tags])
         /\ SaveDaily("addDailyLog", date)

\* const existing = this.data.dailyLogs[date] reads the prototype chain too
updateDailyLog(date, updates) ==
    IF ~Truthy(dailyLogs, date) THEN Throw("updateDailyLog", "NotFound")
    ELSE LET existing == SpreadOf(dailyLogs, date)
             normalized == IF "tasks" \in DOMAIN updates
                           THEN [updates EXCEPT !.tasks = NormalizeTasks(@)]
                           ELSE updates
         IN  /\ dailyLogs' = Put(dailyLogs, date,
                    Spread(Spread(existing, normalized), [date |-> date]))
             /\ SaveDaily("updateDailyLog", date)

\* delete of a name that is only inherited removes nothing and is still saved
\* and answered with true
deleteDailyLog(date) ==
    IF Truthy(dailyLogs, date)
    THEN /\ dailyLogs' = Del(dailyLogs, date)
         /\ UNCHANGED <<monthlyLogs, yearlyLogs, habits, habitLogs, today, lenient, storage, missing, logged>>
         /\ stored' = saveToStorage(Data')
         /\ ret' = [op |-> "deleteDailyLog", date |-> date, err |-> "none",
                    wrote |-> TRUE, val |-> TRUE]
    ELSE /\ ret' = [op |-> "deleteDailyLog", date |-> date, err |-> "none",
                    wrote |-> FALSE, val |-> FALSE]
         /\ UNCHANGED <<dailyLogs, monthlyLogs, yearlyLogs, habits, habitLogs,
                        stored, today, lenient, storage, missing, logged>>

validStatuses == {"todo", "in-progress", "completed", "cancelled"}

validPriorities == {"low", "medium", "high"}

\* log.tasks[taskIndex] is an element; taskIndex counts from 0
HasTask(log, taskIndex) == taskIndex + 1 \in 1..Len(log.tasks)

\* updateTaskStatus that assigns the status before it validates it
updateTaskStatusEarly(date, taskIndex, status) ==
    IF ~Has(dailyLogs, date) THEN Throw("updateTaskStatus", "NotFound")
    ELSE IF ~HasTask(Get(dailyLogs, date), taskIndex)
    THEN Throw("updateTaskStatus", "NotFound")
    ELSE IF status \notin validStatuses
    THEN /\ dailyLogs' = Put(dailyLogs, date,
                [Get(dailyLogs, date) EXCEPT !.tasks[taskIndex + 1].status = status])
         /\ ret' = [op |-> "updateTaskStatus", err |-> "InvalidFormat", wrote |-> FALSE]
         /\ UNCHANGED <<monthlyLogs, yearlyLogs, habits, habitLogs,
                        stored, today, lenient, storage, missing, logged>>
    ELSE /\ dailyLogs' = Put(dailyLogs, date,
                [Get(dailyLogs, date) EXCEPT !.tasks[taskIndex + 1].status = status])
         /\ SaveDaily("updateTaskStatus", date)

updateTaskStatus(date, taskIndex, status) ==
    IF ~Has(dailyLogs, date) THEN Throw("updateTaskStatus", "NotFound")
    ELSE IF ~HasTask(Get(dailyLogs, date), taskIndex)
    THEN Throw("updateTaskStatus", "NotFound")
    ELSE IF status \notin validStatuses THEN Throw("updateTaskStatus", "InvalidFormat")
    ELSE IF "isString" \in DOMAIN Get(dailyLogs, date).tasks[taskIndex + 1]
    THEN Throw("updateTaskStatus", "TypeError")
    ELSE /\ dailyLogs' = Put(dailyLogs, date,
                [Get(dailyLogs, date) EXCEPT !.tasks[taskIndex + 1].status = status])
         /\ SaveDaily("updateTaskStatus", date)

updateTaskPriority(date, taskIndex, priority) ==
    IF ~Has(dailyLogs, date) THEN Throw("updateTaskPriority", "NotFound")
    ELSE IF ~HasTask(Get(dailyLogs, date), taskIndex)
    THEN Throw("updateTaskPriority", "NotFound")
    ELSE IF priority \notin validPriorities
    THEN Throw("updateTaskPriority", "InvalidFormat")
    ELSE IF "isString" \in DOMAIN Get(dailyLogs, date).tasks[taskIndex + 1]
    THEN Throw("updateTaskPriority", "TypeError")
    ELSE /\ dailyLogs' = Put(dailyLogs, date,
                [Get(dailyLogs, date) EXCEPT !.tasks[taskIndex + 1].priority = priority])
         /\ SaveDaily("updateTaskPriority", date)

\* ------------------------------------------------- monthly and yearly logs

addMonthlyLog(month, entry) ==
    IF ~isValidMonth(month) THEN Throw("addMonthlyLog", "InvalidFormat")
    ELSE /\ monthlyLogs' = Put(monthlyLogs, month,
                [month |-> month, goals |-> entry.goals, tasks |-> <<>>,
                 overview |-> entry.overview, highlights |-> <<>>])
         /\ UNCHANGED <<dailyLogs, yearlyLogs, habits, habitLogs, today, lenient, storage, missing, logged>>
         /\ stored' = saveToStorage(Data')
         /\ ret' = [op |-> "addMonthlyLog", err |-> "none", wrote |-> TRUE]

updateMonthlyLog(month, updates) ==
    IF ~Has(monthlyLogs, month) THEN Throw("updateMonthlyLog", "NotFound")
    ELSE /\ monthlyLogs' = Put(monthlyLogs, month,
                [Spread(Get(monthlyLogs, month), updates) EXCEPT !.month = month])
         /\ UNCHANGED <<dailyLogs, yearlyLogs, habits, habitLogs, today, lenient, storage, missing, logged>>
         /\ stored' = saveToStorage(Data')
         /\ ret' = [op |-> "updateMonthlyLog", err |-> "none", wrote |-> TRUE]

deleteMonthlyLog(month) ==
    IF Has(monthlyLogs, month)
    THEN /\ monthlyLogs' = Del(monthlyLogs, month)
         /\ UNCHANGED <<dailyLogs, yearlyLogs, habits, habitLogs, today, lenient, storage, missing, logged>>
         /\ stored' = saveToStorage(Data')
         /\ ret' = [op |-> "deleteMonthlyLog", err |-> "none", wrote |-> TRUE, val |-> TRUE]
    ELSE /\ ret' = [op |-> "deleteMonthlyLog", err |-> "none", wrote |-> FALSE,
                    val |-> FALSE]
         /\ UNCHANGED <<dailyLogs, monthlyLogs, yearlyLogs, habits, habitLogs,
                        stored, today, lenient, storage, missing, logged>>

addYearlyLog(year, entry) ==
    IF ~isValidYear(year) THEN Throw("addYearlyLog", "InvalidFormat")
    ELSE /\ yearlyLogs' = Put(yearlyLogs, year,
                [year |-> year, goals |-> entry.goals, achievements |-> <<>>,
                 overview |-> entry.overview, highlights |-> <<>>])
         /\ UNCHANGED <<dailyLogs, monthlyLogs, habits, habitLogs, today, lenient, storage, missing, logged>>
         /\ stored' = saveToStorage(Data')
         /\ ret' = [op |-> "addYearlyLog", err |-> "none", wrote |-> TRUE]

updateYearlyLog(year, updates) ==
    IF ~Has(yearlyLogs, year) THEN Throw("updateYearlyLog", "NotFound")
    ELSE /\ yearlyLogs' = Put(yearlyLogs, year,
                [Spread(Get(yearlyLogs, year), updates) EXCEPT !.year = year])
         /\ UNCHANGED <<dailyLogs, monthlyLogs, habits, habitLogs, today, lenient, storage, missing, logged>>
         /\ stored' = saveToStorage(Data')
         /\ ret' = [op |-> "updateYearlyLog", err |-> "none", wrote |-> TRUE]

deleteYearlyLog(year) ==
    IF Has(yearlyLogs, year)
    THEN /\ yearlyLogs' = Del(yearlyLogs, year)
         /\ UNCHANGED <<dailyLogs, monthlyLogs, habits, habitLogs, today, lenient, storage, missing, logged>>
         /\ stored' = saveToStorage(Data')
         /\ ret' = [op |-> "deleteYearlyLog", err |-> "none", wrote |-> TRUE, val |-> TRUE]
    ELSE /\ ret' = [op |-> "deleteYearlyLog", err |-> "none", wrote |-> FALSE,
                    val |-> FALSE]
         /\ UNCHANGED <<dailyLogs, monthlyLogs, yearlyLogs, habits, habitLogs,
                        stored, today, lenient, storage, missing, logged>>

\* ------------------------------------------------------- tags and filtering

\* Array.prototype.includes
Includes(arr, x) == \E i \in 1..Len(arr) : arr[i] = x

\* set.add(x) on a Set kept as the sequence of its elements in insertion order
SetAdd(set, x) == IF Includes(set, x) THEN set ELSE Append(set, x)

\* new Set(arr), then Array.from: each element once, at its first place
RECURSIVE NewSet(_)
NewSet(arr) ==
    IF arr = <<>> THEN <<>>
    ELSE SetAdd(NewSet(SubSeq(arr, 1, Len(arr) - 1)), arr[Len(arr)])

\* tags.forEach(tag => existingTags.add(tag.toLowerCase()))
RECURSIVE AddLowered(_, _)
AddLowered(set, tags) ==
    IF tags = <<>> THEN set
    ELSE AddLowered(SetAdd(set, ToLowerCase(Head(tags))), Tail(tags))

\* log.tags || []
TagsOf(log) == IF "tags" \in DOMAIN log THEN log.tags ELSE <<>>

\* addTags without its saveToStorage
addTagsUnsaved(date, tags) ==
    IF ~Has(dailyLogs, date) THEN Throw("addTags", "NotFound")
    ELSE LET log == Get(dailyLogs, date)
         IN  /\ dailyLogs' = Put(dailyLogs, date,
                    Spread(log, [tags |-> AddLowered(NewSet(TagsOf(log)), tags)]))
             /\ UNCHANGED <<monthlyLogs, yearlyLogs, habits, habitLogs, stored, today,
                            lenient, storage, missing, logged>>
             /\ ret' = [op |-> "addTags", date |-> date, err |-> "none", wrote |-> FALSE]

addTags(date, tags) ==
    IF ~Has(dailyLogs, date) THEN Throw("addTags", "NotFound")
    ELSE LET log == Get(dailyLogs, date)
         IN  /\ dailyLogs' = Put(dailyLogs, date,
                    Spread(log, [tags |-> AddLowered(NewSet(TagsOf(log)), tags)]))
             /\ SaveDaily("addTags", date)

removeTags(date, tags) ==
    IF ~Has(dailyLogs, date) THEN Throw("removeTags", "NotFound")
    ELSE LET log == Get(dailyLogs, date)
             tagsToRemove == {ToLowerCase(tags[i]) : i \in 1..Len(tags)}
         IN  /\ dailyLogs' = Put(dailyLogs, date,
                    Spread(log, [tags |-> SelectSeq(TagsOf(log),
                                             LAMBDA tag : tag \notin tagsToRemove)]))
             /\ SaveDaily("removeTags", date)

\* .map(([date, log]) => ({ date, ...log }))
WithDate(entries) == [i \in 1..Len(entries) |-> Spread([date |-> entries[i].k], entries[i].v)]

\* getLogsByTag with the query used as given
getLogsByTagAsGiven(tag) ==
    WithDate(SelectSeq(dailyLogs, LAMBDA e : Includes(TagsOf(e.v), tag)))

getLogsByTag(tag) ==
    LET normalizedTag == ToLowerCase(tag)
    IN  WithDate(SelectSeq(dailyLogs, LAMBDA e : Includes(TagsOf(e.v), normalizedTag)))

\* getLogsByTags that is content with one of the tags (some for every)
getLogsByTagsSome(tags) ==
    LET normalizedTags == [i \in 1..Len(tags) |-> ToLowerCase(tags[i])]
    IN  WithDate(SelectSeq(dailyLogs, LAMBDA e :
            \E i \in 1..Len(normalizedTags) : Includes(TagsOf(e.v), normalizedTags[i])))

getLogsByTags(tags) ==
    LET normalizedTags == [i \in 1..Len(tags) |-> ToLowerCase(tags[i])]
    IN  WithDate(SelectSeq(dailyLogs, LAMBDA e :
            \A i \in 1..Len(normalizedTags) : Includes(TagsOf(e.v), normalizedTags[i])))

\* ----------------------------------------------------------- habit tracking

\* createHabit without this.data.habitLogs[habitId] = {}
createHabitNoLogs(habitId, habitData) ==
    IF "habits" \in missing THEN Throw("createHabit", "TypeError")
    ELSE IF Has(habits, habitId)
    THEN /\ ret' = [op |-> "createHabit", err |-> "AlreadyExists", wrote |-> FALSE]
         /\ UNCHANGED <<dailyLogs, monthlyLogs, yearlyLogs, habits, habitLogs,
                        stored, today, lenient, storage, missing, logged>>
    ELSE /\ habits' = Put(habits, habitId,
                [id |-> habitId, name |-> habitData.name, description |-> "",
                 frequency |-> "daily",
                 target |-> IF habitData.target = 0 THEN 1 ELSE habitData.target,
                 tags |-> <<>>])
         /\ logged' = [logged EXCEPT ![habitId] = {}]
         /\ UNCHANGED <<dailyLogs, monthlyLogs, yearlyLogs, habitLogs, today, lenient,
                        storage, missing>>
         /\ stored' = saveToStorage(Data')
         /\ ret' = [op |-> "createHabit", habitId |-> habitId, err |-> "none",
                    wrote |-> TRUE]

createHabit(habitId, habitData) ==
    IF "habits" \in missing THEN Throw("createHabit", "TypeError")
    ELSE IF Has(habits, habitId)
    THEN /\ ret' = [op |-> "createHabit", err |-> "AlreadyExists", wrote |-> FALSE]
         /\ UNCHANGED <<dailyLogs, monthlyLogs, yearlyLogs, habits, habitLogs,
                        stored, today, lenient, storage, missing, logged>>
    ELSE /\ habits' = Put(habits, habitId,
                [id |-> habitId, name |-> habitData.name, description |-> "",
                 frequency |-> "daily",
                 target |-> IF habitData.target = 0 THEN 1 ELSE habitData.target,
                 tags |-> <<>>])
         /\ habitLogs' = Put(habitLogs, habitId, <<>>)
         /\ logged' = [logged EXCEPT ![habitId] = {}]
         /\ UNCHANGED <<dailyLogs, monthlyLogs, yearlyLogs, today, lenient, storage, missing>>
         /\ stored' = saveToStorage(Data')
         /\ ret' = [op |-> "createHabit", habitId |-> habitId, err |-> "none",
                    wrote |-> TRUE]

logHabit(habitId, date, logData) ==
    IF "habits" \in missing THEN Throw("logHabit", "TypeError")
    ELSE IF ~Has(habits, habitId)
    THEN /\ ret' = [op |-> "logHabit", err |-> "NotFound", wrote |-> FALSE]
         /\ UNCHANGED <<dailyLogs, monthlyLogs, yearlyLogs, habits, habitLogs,
                        stored, today, lenient, storage, missing, logged>>
    ELSE IF ~isValidDate(date)
    THEN /\ ret' = [op |-> "logHabit", err |-> "InvalidFormat", wrote |-> FALSE]
         /\ UNCHANGED <<dailyLogs, monthlyLogs, yearlyLogs, habits, habitLogs,
                        stored, today, lenient, storage, missing, logged>>
    ELSE LET habitLog == [date |-> date, completed |-> TRUE, notes |-> logData.notes,
                          value |-> IF logData.value = 0 THEN 1 ELSE logData.value]
             logs == IF Has(habitLogs, habitId) THEN Get(habitLogs, habitId) ELSE <<>>
         IN  /\ habitLogs' = Put(habitLogs, habitId, Put(logs, date, habitLog))
             /\ logged' = [logged EXCEPT ![habitId] = @ \cup {date}]
             /\ UNCHANGED <<dailyLogs, monthlyLogs, yearlyLogs, habits, today, lenient, storage, missing>>
             /\ stored' = saveToStorage(Data')
             /\ ret' = [op |-> "logHabit", err |-> "none", wrote |-> TRUE]

\* deleteHabit without its second delete: the logs of the habit stay
deleteHabitKeepLogs(habitId) ==
    IF "habits" \in missing THEN Throw("deleteHabit", "TypeError")
    ELSE IF Has(habits, habitId)
    THEN /\ habits' = Del(habits, habitId)
         /\ UNCHANGED <<dailyLogs, monthlyLogs, yearlyLogs, habitLogs, today, lenient,
                        storage, missing, logged>>
         /\ stored' = saveToStorage(Data')
         /\ ret' = [op |-> "deleteHabit", habitId |-> habitId, err |-> "none",
                    wrote |-> TRUE, val |-> TRUE,
                    removed |-> IF Has(habitLogs, habitId)
                                THEN Len(Get(habitLogs, habitId)) ELSE 0]
    ELSE /\ ret' = [op |-> "deleteHabit", habitId |-> habitId, err |-> "none",
                    wrote |-> FALSE, val |-> FALSE, removed |-> 0]
         /\ UNCHANGED <<dailyLogs, monthlyLogs, yearlyLogs, habits, habitLogs,
                        stored, today, lenient, storage, missing, logged>>

deleteHabit(habitId) ==
    IF "habits" \in missing THEN Throw("deleteHabit", "TypeError")
    ELSE IF Has(habits, habitId)
    THEN /\ habits' = Del(habits, habitId)
         /\ habitLogs' = Del(habitLogs, habitId)
         /\ logged' = [logged EXCEPT ![habitId] = {}]
         /\ UNCHANGED <<dailyLogs, monthlyLogs, yearlyLogs, today, lenient, storage, missing>>
         /\ stored' = saveToStorage(Data')
         /\ ret' = [op |-> "deleteHabit", habitId |-> habitId, err |-> "none",
                    wrote |-> TRUE, val |-> TRUE,
                    removed |-> IF Has(habitLogs, habitId)
                                THEN Len(Get(habitLogs, habitId)) ELSE 0]
    ELSE /\ ret' = [op |-> "deleteHabit", habitId |-> habitId, err |-> "none",
                    wrote |-> FALSE, val |-> FALSE, removed |-> 0]
         /\ UNCHANGED <<dailyLogs, monthlyLogs, yearlyLogs, habits, habitLogs,
                        stored, today, lenient, storage, missing, logged>>

\* getHabitLogs; a bound that is null or '' is the empty string
getHabitLogs(habitId, startDate, endDate) ==
    IF ~Has(habitLogs, habitId) THEN <<>>
    ELSE LET logs == Get(habitLogs, habitId)
         IN  IF startDate = <<>> /\ endDate = <<>> THEN logs
             ELSE SelectSeq(logs, LAMBDA e :
                     /\ (startDate = <<>> \/ StrLeq(startDate, e.k))
                     /\ (endDate = <<>> \/ StrLeq(e.k, endDate)))

\* CountBack with an if for the while: the loop body runs at most once
CountBackOnce(logs, checkDate, roll) == IF Has(logs, checkDate) THEN 1 ELSE 0

\* the while loop of getHabitStreak: the days logged from checkDate backwards
RECURSIVE CountBack(_, _, _)
CountBack(logs, checkDate, roll) ==
    IF Has(logs, checkDate)
    THEN 1 + CountBack(logs, ToISODate(DateParse(checkDate, roll).t - 1), roll)
    ELSE 0

\* Math.floor((current - next) / (1000 * 60 * 60 * 24)) === 1
DiffIsOneDay(a, b, roll) ==
    LET current == DateParse(a, roll)
        next == DateParse(b, roll)
    IN  current.ok /\ next.ok /\ current.t - next.t = 1

Max(a, b) == IF a >= b THEN a ELSE b

\* the for loop of getHabitStreak, from index i (1-based) on
RECURSIVE LongestLoop(_, _, _, _, _)
LongestLoop(dates, i, tempStreak, longestStreak, roll) ==
    IF i >= Len(dates) THEN Max(longestStreak, tempStreak)
    ELSE IF DiffIsOneDay(dates[i], dates[i + 1], roll)
    THEN LongestLoop(dates, i + 1, tempStreak + 1, longestStreak, roll)
    ELSE LongestLoop(dates, i + 1, 1, Max(longestStreak, tempStreak), roll)

\* SortedDates without the sort: the keys in reverse insertion order
SortedDatesUnsorted(logs) == Reverse(Keys(logs))

\* Object.keys(logs).sort().reverse()
SortedDates(logs) == Reverse(Sort(Keys(logs)))

\* StreakOf that lets the current streak start yesterday when today is not logged
StreakOfGrace(logs, now, roll) ==
    LET dates == SortedDates(logs)
    IN  IF Len(dates) = 0 THEN [current |-> 0, longest |-> 0]
        ELSE [current |-> IF Has(logs, ToISODate(now))
                          THEN 1 + CountBack(logs, ToISODate(now - 1), roll)
                          ELSE CountBack(logs, ToISODate(now - 1), roll),
              longest |-> LongestLoop(dates, 1, 1, 0, roll),
              totalCompletions |-> Len(dates)]

\* getHabitStreak on the log object of one habit, at the instant now
StreakOf(logs, now, roll) ==
    LET dates == SortedDates(logs)
    IN  IF Len(dates) = 0 THEN [current |-> 0, longest |-> 0]
        ELSE [current |-> IF Has(logs, ToISODate(now))
                          THEN 1 + CountBack(logs, ToISODate(now - 1), roll)
                          ELSE 0,
              longest |-> LongestLoop(dates, 1, 1, 0, roll),
              totalCompletions |-> Len(dates)]

getHabitStreak(habitId) ==
    StreakOf(IF Has(habitLogs, habitId) THEN Get(habitLogs, habitId) ELSE <<>>,
             today, lenient)

\* lines 554 to 563 of getHabitStats; completionRate is in tenths of a percent
StatsOf(habitName, completedDays, days, streak) ==
    [habitName |-> habitName,
     period |-> days,
     completedDays |-> completedDays,
     missedDays |-> days - completedDays,
     completionRate |-> CompletionRate(completedDays, days),
     streak |-> streak]

\* getHabitStats that takes the streak of the logs of the window
getHabitStatsWindowed(habitId, days) ==
    LET habit == Get(habits, habitId)
        endDate == ToISODate(today)
        startDate == ToISODate(today - (days - 1))
        logs == getHabitLogs(habitId, startDate, endDate)
    IN  StatsOf(habit.name, Len(logs), days, StreakOf(logs, today, lenient))

\* getHabitStats, for a registered habit
getHabitStats(habitId, days) ==
    LET habit == Get(habits, habitId)
        endDate == ToISODate(today)
        startDate == ToISODate(today - (days - 1))
        logs == getHabitLogs(habitId, startDate, endDate)
    IN  StatsOf(habit.name, Len(logs), days, getHabitStreak(habitId))

\* ------------------------------------------- storage, import and export

\* the empty aggregate of the constructor and of clearStorage
clearStorage ==
    /\ dailyLogs' = <<>>
    /\ monthlyLogs' = <<>>
    /\ yearlyLogs' = <<>>
    /\ habits' = <<>>
    /\ habitLogs' = <<>>
    /\ missing' = {}
    /\ logged' = [h \in RegistryIds |-> {}]
    /\ UNCHANGED <<today, lenient, storage>>
    /\ stored' = saveToStorage(Data')
    /\ ret' = [op |-> "clearStorage", err |-> "none", wrote |-> TRUE]

\* exportData: JSON.stringify(this.data, null, 2)
exportData == JSONstringify(Data, 2)

\* the collection c of a parsed document: parsed[c] || {}
Imported(parsed, c) == CollectionFromJSON(c, OrEmpty(Prop(parsed, c)))

\* importData that empties the aggregate before it parses the document
importDataClearFirst(jsonData) ==
    LET parsed == JSONparse(jsonData)
    IN  IF ~parsed.ok \/ parsed.val.t = "null"
        THEN /\ dailyLogs' = <<>>
             /\ monthlyLogs' = <<>>
             /\ yearlyLogs' = <<>>
             /\ habits' = <<>>
             /\ habitLogs' = <<>>
             /\ missing' = {}
             /\ logged' = [h \in RegistryIds |-> {}]
             /\ UNCHANGED <<stored, today, lenient, storage>>
             /\ ret' = [op |-> "importData", doc |-> jsonData, err |-> "InvalidFormat",
                        wrote |-> FALSE]
        ELSE /\ dailyLogs' = Imported(parsed.val, "dailyLogs")
             /\ monthlyLogs' = Imported(parsed.val, "monthlyLogs")
             /\ yearlyLogs' = Imported(parsed.val, "yearlyLogs")
             /\ habits' = Imported(parsed.val, "habits")
             /\ habitLogs' = Imported(parsed.val, "habitLogs")
             /\ missing' = {}
             /\ logged' = [h \in RegistryIds |->
                              IF Has(habitLogs', h) THEN KeySet(Get(habitLogs', h)) ELSE {}]
             /\ UNCHANGED <<today, lenient, storage>>
             /\ stored' = saveToStorage(Data')
             /\ ret' = [op |-> "importData", doc |-> jsonData, err |-> "none",
                        wrote |-> TRUE]

\* importData: JSON.parse throws on a text that is not JSON, and reading
\* parsed.dailyLogs throws when the text is null; both end in the catch
importData(jsonData) ==
    LET parsed == JSONparse(jsonData)
    IN  IF ~parsed.ok \/ parsed.val.t = "null"
        THEN /\ ret' = [op |-> "importData", doc |-> jsonData, err |-> "InvalidFormat",
                        wrote |-> FALSE]
             /\ UNCHANGED <<dailyLogs, monthlyLogs, yearlyLogs, habits, habitLogs,
                            stored, today, lenient, storage, missing, logged>>
        ELSE /\ dailyLogs' = Imported(parsed.val, "dailyLogs")
             /\ monthlyLogs' = Imported(parsed.val, "monthlyLogs")
             /\ yearlyLogs' = Imported(parsed.val, "yearlyLogs")
             /\ habits' = Imported(parsed.val, "habits")
             /\ habitLogs' = Imported(parsed.val, "habitLogs")
             /\ missing' = {}
             /\ logged' = [h \in RegistryIds |->
                              IF Has(habitLogs', h) THEN KeySet(Get(habitLogs', h)) ELSE {}]
             /\ UNCHANGED <<today, lenient, storage>>
             /\ stored' = saveToStorage(Data')
             /\ ret' = [op |-> "importData", doc |-> jsonData, err |-> "none",
                        wrote |-> TRUE]

\* loadFromStorage: the parsed item, or null
loadFromStorage(item) ==
    IF storage = "unavailable" \/ ~item.present THEN JNull
    ELSE IF JSONparse(item.data).ok THEN JSONparse(item.data).val
    ELSE JNull

\* the collection c of this.data after the constructor loaded the node
Loaded(node, c) ==
    IF Falsy(node) \/ Prop(node, c).t = "undefined" THEN <<>>
    ELSE CollectionFromJSON(c, Prop(node, c))

\* the state the constructor leaves over the stored item: what it loaded as it
\* is, or the empty aggregate when it loaded null
Constructor(item) ==
    /\ stored = item
    /\ dailyLogs = Loaded(loadFromStorage(item), "dailyLogs")
    /\ monthlyLogs = Loaded(loadFromStorage(item), "monthlyLogs")
    /\ yearlyLogs = Loaded(loadFromStorage(item), "yearlyLogs")
    /\ habits = Loaded(loadFromStorage(item), "habits")
    /\ habitLogs = Loaded(loadFromStorage(item), "habitLogs")
    /\ missing = IF Falsy(loadFromStorage(item)) THEN {}
                 ELSE {c \in Range(Collections) :
                          Prop(loadFromStorage(item), c).t = "undefined"}
    /\ today = StartDay
    /\ logged = [h \in RegistryIds |-> {}]
    /\ ret = [op |-> "constructor", err |-> "none", wrote |-> FALSE]

\* ------------------------------------------------------ queries and counts

\* the tasks of one entry whose property field is x, each with date and index
TasksOfLog(entry, field, x) ==
    LET tasks == entry.v.tasks
        hits == SelectSeq([i \in 1..Len(tasks) |-> i],
                          LAMBDA i : field \in DOMAIN tasks[i] /\ tasks[i][field] = x)
    IN  [j \in 1..Len(hits) |->
            Spread(tasks[hits[j]], [date |-> entry.k, index |-> hits[j] - 1])]

\* Object.entries(this.data.dailyLogs).forEach(...), from the first entry on
RECURSIVE TasksWhere(_, _, _)
TasksWhere(logs, field, x) ==
    IF logs = <<>> THEN <<>>
    ELSE TasksOfLog(Head(logs), field, x) \o TasksWhere(Tail(logs), field, x)

getTasksByStatus(status) == TasksWhere(dailyLogs, "status", status)

getTasksByPriority(priority) == TasksWhere(dailyLogs, "priority", priority)

\* The characters of the texts callers put in tasks, notes and events.
Chars(text) ==
    CASE text = "buy milk" -> <<"b", "u", "y", " ", "m", "i", "l", "k">>
      [] text = "call" -> <<"c", "a", "l", "l">>
      [] text = "n" -> <<"n">>
      [] text = "MILK" -> <<"M", "I", "L", "K">>

\* String.prototype.toLowerCase on a text that may hold any capital letter of
\* the keywords
LowerText(s) ==
    [i \in 1..Len(s) |->
        CASE s[i] = "M" -> "m"
          [] s[i] = "I" -> "i"
          [] s[i] = "L" -> "l"
          [] OTHER -> ToLowerChar(s[i])]

\* String.prototype.includes
StrIncludes(s, k) ==
    \E i \in 0..(Len(s) - Len(k)) : SubSeq(s, i + 1, i + Len(k)) = k

\* searchLogs: a task is searched by itself when it is a string, by its text
\* when it is an object (both are the text of the record here)
searchLogs(keyword) ==
    LET lowerKeyword == LowerText(Chars(keyword))
        Match(text) == StrIncludes(LowerText(Chars(text)), lowerKeyword)
    IN  WithDate(SelectSeq(dailyLogs, LAMBDA e :
            \/ \E i \in 1..Len(e.v.tasks) : Match(e.v.tasks[i].text)
            \/ \E i \in 1..Len(e.v.notes) : Match(e.v.notes[i])
            \/ \E i \in 1..Len(e.v.events) : Match(e.v.events[i])))

\* every tag of every log, each once
RECURSIVE AllTags(_)
AllTags(logs) ==
    IF logs = <<>> THEN <<>>
    ELSE NewSet(AllTags(SubSeq(logs, 1, Len(logs) - 1)) \o TagsOf(logs[Len(logs)].v))

getAllTags == Sort(AllTags(dailyLogs))

\* getStats, when this.data has the four collections it counts
getStats ==
    [totalDailyLogs |-> Len(dailyLogs),
     totalMonthlyLogs |-> Len(monthlyLogs),
     totalYearlyLogs |-> Len(yearlyLogs),
     totalHabits |-> Len(habits),
     totalTags |-> Len(getAllTags)]

\* ------------------------------------------------------------------ actions

Quiet == UNCHANGED <<dailyLogs, monthlyLogs, yearlyLogs, habits, habitLogs,
                     stored, today, lenient, storage, missing, logged>>

CallCreateHabit == \E h \in HabitIds, hd \in HabitDatas : createHabit(h, hd)

CallLogHabit ==
    \E h \in HabitIds, d \in HabitDateInputs, ld \in LogDatas :
        /\ Has(habitLogs, h) =>
               (Has(Get(habitLogs, h), d) \/ Len(Get(habitLogs, h)) < MaxLogs)
        /\ logHabit(h, d, ld)

CallDeleteHabit == \E h \in HabitIds : deleteHabit(h)

CallGetHabitStreak ==
    \E h \in HabitIds :
        /\ ret' = IF "habitLogs" \in missing
                  THEN [op |-> "getHabitStreak", habitId |-> h, err |-> "TypeError",
                        wrote |-> FALSE]
                  ELSE [op |-> "getHabitStreak", habitId |-> h, err |-> "none",
                        wrote |-> FALSE, val |-> getHabitStreak(h)]
        /\ Quiet

CallGetHabitStats ==
    \E h \in HabitIds, days \in 1..(MaxLogs + 1) :
        /\ ret' = IF "habits" \in missing
                  THEN [op |-> "getHabitStats", habitId |-> h, days |-> days,
                        err |-> "TypeError", wrote |-> FALSE]
                  ELSE IF ~Has(habits, h)
                  THEN [op |-> "getHabitStats", habitId |-> h, days |-> days,
                        err |-> "NotFound", wrote |-> FALSE]
                  ELSE [op |-> "getHabitStats", habitId |-> h, days |-> days,
                        err |-> "none", wrote |-> FALSE, val |-> getHabitStats(h, days)]
        /\ Quiet

\* lines 554 to 563 alone, on the completedDays and days the state holds
CallStatsOf ==
    /\ ret.op = "statsInput"
    /\ ret' = [op |-> "statsOf", completedDays |-> ret.completedDays,
               days |-> ret.days, err |-> "none", wrote |-> FALSE,
               val |-> StatsOf("Exercise", ret.completedDays, ret.days,
                               [current |-> 0, longest |-> 0])]
    /\ Quiet

\* the clock passes midnight (UTC)
Tick ==
    /\ today < StartDay + MaxTicks
    /\ today' = today + 1
    /\ ret' = [op |-> "tick", err |-> "none", wrote |-> FALSE]
    /\ UNCHANGED <<dailyLogs, monthlyLogs, yearlyLogs, habits, habitLogs,
                   stored, lenient, storage, missing, logged>>

\* the state a constructor leaves when storage holds nothing
Fresh ==
    /\ dailyLogs = <<>>
    /\ monthlyLogs = <<>>
    /\ yearlyLogs = <<>>
    /\ habits = <<>>
    /\ habitLogs = <<>>
    /\ stored = [present |-> FALSE]
    /\ storage = "available"
    /\ missing = {}
    /\ today = StartDay
    /\ logged = [h \in RegistryIds |-> {}]
    /\ ret = [op |-> "constructor", err |-> "none", wrote |-> FALSE]

\* after construction, on either kind of engine
Init == Fresh /\ lenient \in BOOLEAN

\* after construction, on an engine whose Date parser rolls nothing over
InitStrict == Fresh /\ lenient = FALSE

\* a window of days days of which completedDays hold a log
InitRate ==
    /\ dailyLogs = <<>>
    /\ monthlyLogs = <<>>
    /\ yearlyLogs = <<>>
    /\ habits = <<>>
    /\ habitLogs = <<>>
    /\ stored = [present |-> FALSE]
    /\ storage = "available"
    /\ missing = {}
    /\ today = StartDay
    /\ lenient = FALSE
    /\ logged = [h \in RegistryIds |-> {}]
    /\ \E days \in 1..MaxRate :
           \E completedDays \in 0..days :
               ret = [op |-> "statsInput", completedDays |-> completedDays,
                      days |-> days, err |-> "none", wrote |-> FALSE]

NextHabit ==
    \/ CallCreateHabit
    \/ CallLogHabit
    \/ CallDeleteHabit
    \/ CallGetHabitStreak
    \/ CallGetHabitStats
    \/ Tick

\* the habit operations, the clock and the two streak and statistics queries
SpecHabit == Init /\ [][NextHabit]_vars

NextRate == CallStatsOf

\* the arithmetic of getHabitStats on every window up to MaxRate days
SpecRate == InitRate /\ [][NextRate]_vars

TagDates == {Date1, Date2}

AddDailyLogTagged == \E d \in TagDates, l \in TagLists : addDailyLog(d, TagEntry(l))

UpdateDailyLogTags == \E d \in TagDates, l \in TagLists : updateDailyLog(d, [tags |-> l])

CallAddTags == \E d \in TagDates, l \in TagLists : addTags(d, l)

CallRemoveTags == \E d \in TagDates, l \in TagLists : removeTags(d, l)

CallGetLogsByTag ==
    \E t \in QueryTags :
        /\ ret' = [op |-> "getLogsByTag", tag |-> t, err |-> "none", wrote |-> FALSE,
                   val |-> getLogsByTag(t)]
        /\ Quiet

CallGetLogsByTags ==
    \E a \in QueryTags, b \in QueryTags :
        /\ ret' = [op |-> "getLogsByTags", tags |-> <<a, b>>, err |-> "none",
                   wrote |-> FALSE, val |-> getLogsByTags(<<a, b>>)]
        /\ Quiet

NextTags ==
    \/ AddDailyLogTagged
    \/ UpdateDailyLogTags
    \/ CallAddTags
    \/ CallRemoveTags
    \/ CallGetLogsByTag
    \/ CallGetLogsByTags

\* the operations that store tags and the two tag queries
SpecTags == InitStrict /\ [][NextTags]_vars

AddDailyLogTask ==
    \E d \in {Date1, DateSlashes} :
        addDailyLog(d, TaskEntry([isString |-> TRUE, text |-> "buy milk"]))

UpdateDailyLogTasks ==
    \E d \in {Date1, Date2} :
        updateDailyLog(d, [tasks |-> <<[isString |-> FALSE, text |-> "call",
                                        priority |-> "high", status |-> ""]>>])

CallDeleteDailyLog == \E d \in {Date1, DateMonth13} : deleteDailyLog(d)

CallUpdateTaskStatus ==
    \E d \in {Date1, Date2}, i \in {0, 1}, st \in {"completed", "done"} :
        updateTaskStatus(d, i, st)

CallUpdateTaskPriority ==
    \E d \in {Date1, Date2}, i \in {0, 1}, pr \in {"low", "urgent"} :
        updateTaskPriority(d, i, pr)

AddTagsWork == \E d \in {Date1, Date2} : addTags(d, <<TagWork>>)

RemoveTagsWork == \E d \in {Date1, Date2} : removeTags(d, <<TagWork>>)

CallAddMonthlyLog == \E m \in {Month1, MonthShort} : addMonthlyLog(m, PeriodEntry)

CallUpdateMonthlyLog == updateMonthlyLog(Month1, [overview |-> "o"])

CallDeleteMonthlyLog == deleteMonthlyLog(Month1)

CallAddYearlyLog == \E y \in {Year1, YearShort} : addYearlyLog(y, PeriodEntry)

CallUpdateYearlyLog == updateYearlyLog(Year1, [overview |-> "o"])

CallDeleteYearlyLog == deleteYearlyLog(Year1)

LogHabitToday ==
    \E h \in HabitIds, d \in {ToISODate(StartDay), DateSlashes}, ld \in LogDatas :
        logHabit(h, d, ld)

NextErr ==
    \/ AddDailyLogTask
    \/ UpdateDailyLogTasks
    \/ CallDeleteDailyLog
    \/ CallUpdateTaskStatus
    \/ CallUpdateTaskPriority
    \/ AddTagsWork
    \/ RemoveTagsWork
    \/ CallAddMonthlyLog
    \/ CallUpdateMonthlyLog
    \/ CallDeleteMonthlyLog
    \/ CallAddYearlyLog
    \/ CallUpdateYearlyLog
    \/ CallDeleteYearlyLog
    \/ CallCreateHabit
    \/ LogHabitToday
    \/ CallDeleteHabit
    \/ CallGetHabitStats

\* every operation that can throw, on inputs that make it throw and that do not
SpecErr == InitStrict /\ [][NextErr]_vars

AddDailyLogAny ==
    \E d \in {Date1, DateMonth13, DateSlashes} :
        \E e \in {TagEntry(l) : l \in TagLists} \cup {TaskEntry(t) : t \in TaskInputs} :
            addDailyLog(d, e)

CallGetDailyLog ==
    \E d \in {Date1, DateMonth13, DateSlashes} :
        /\ ret' = [op |-> "getDailyLog", date |-> d, err |-> "none", wrote |-> FALSE,
                   val |-> IF Has(dailyLogs, d) THEN <<Get(dailyLogs, d)>> ELSE <<>>]
        /\ Quiet

NextDaily ==
    \/ AddDailyLogAny
    \/ CallDeleteDailyLog
    \/ CallGetDailyLog

\* adding, reading and deleting daily logs under well and ill formed dates
SpecDaily == InitStrict /\ [][NextDaily]_vars

ImportAddDailyLog ==
    \/ addDailyLog(Date1, TaskEntry([isString |-> TRUE, text |-> "buy milk"]))
    \/ addDailyLog(Date2, TagEntry(<<TagWork>>))

CallImportData == \E t \in ImportTexts : importData(t)

\* importData(exportData())
CallImportExported == importData(exportData)

CallExportData ==
    /\ ret' = [op |-> "exportData", err |-> "none", wrote |-> FALSE, val |-> exportData]
    /\ Quiet

CallClearStorage == clearStorage

\* after construction over whatever storage holds
InitStored ==
    /\ lenient = FALSE
    /\ storage = "available"
    /\ \E item \in StoredItems : Constructor(item)

NextImport ==
    \/ ImportAddDailyLog
    \/ CallAddMonthlyLog
    \/ CallAddYearlyLog
    \/ CallCreateHabit
    \/ LogHabitToday
    \/ CallImportData
    \/ CallImportExported
    \/ CallExportData
    \/ CallClearStorage

\* import and export among the operations that fill the five collections
SpecImport == InitStored /\ [][NextImport]_vars

\* The dates the callers of the registry log: today, yesterday, and an ill formed one.
RegistryDates == {ToISODate(StartDay), ToISODate(StartDay - 1), DateSlashes}

RegCreateHabit == \E h \in RegistryIds, hd \in HabitDatas : createHabit(h, hd)

RegLogHabit ==
    \E h \in RegistryIds, d \in RegistryDates, ld \in LogDatas : logHabit(h, d, ld)

RegDeleteHabit == \E h \in RegistryIds : deleteHabit(h)

RegGetHabitLogs ==
    \E h \in RegistryIds :
        /\ ret' = IF "habitLogs" \in missing
                  THEN [op |-> "getHabitLogs", habitId |-> h, err |-> "TypeError",
                        wrote |-> FALSE]
                  ELSE [op |-> "getHabitLogs", habitId |-> h, err |-> "none",
                        wrote |-> FALSE, val |-> getHabitLogs(h, <<>>, <<>>)]
        /\ Quiet

RegGetHabitStreak ==
    \E h \in RegistryIds :
        /\ ret' = IF "habitLogs" \in missing
                  THEN [op |-> "getHabitStreak", habitId |-> h, err |-> "TypeError",
                        wrote |-> FALSE]
                  ELSE [op |-> "getHabitStreak", habitId |-> h, err |-> "none",
                        wrote |-> FALSE, val |-> getHabitStreak(h)]
        /\ Quiet

NextRegistry ==
    \/ RegCreateHabit
    \/ RegLogHabit
    \/ RegDeleteHabit
    \/ CallClearStorage
    \/ RegGetHabitLogs
    \/ RegGetHabitStreak

\* two habits created, logged, deleted and cleared, from an empty journal
SpecRegistry == InitStrict /\ [][NextRegistry]_vars

\* one call of every operation that changes the journal, on the first date

StoreAddDailyLog == addDailyLog(Date1, TaskEntry([isString |-> TRUE, text |-> "buy milk"]))

StoreUpdateDailyLog == updateDailyLog(Date1, [tags |-> <<TagWork>>])

StoreDeleteDailyLog == deleteDailyLog(Date1)

StoreUpdateTaskStatus == updateTaskStatus(Date1, 0, "completed")

StoreUpdateTaskPriority == updateTaskPriority(Date1, 0, "low")

StoreAddTags == addTags(Date1, <<TagWork>>)

StoreRemoveTags == removeTags(Date1, <<TagWork>>)

StoreAddMonthlyLog == addMonthlyLog(Month1, PeriodEntry)

StoreAddYearlyLog == addYearlyLog(Year1, PeriodEntry)

StoreLogHabit == \E ld \in LogDatas : logHabit("ex", ToISODate(StartDay), ld)

StoreImportData == \E t \in {Garbage, PartialText} : importData(t)

\* one call of every operation that reads

Answer(opName, value) ==
    /\ ret' = [op |-> opName, err |-> "none", wrote |-> FALSE, val |-> value]
    /\ Quiet

StoreGetDailyLog ==
    Answer("getDailyLog", IF Has(dailyLogs, Date1) THEN <<Get(dailyLogs, Date1)>> ELSE <<>>)

StoreGetTasksByStatus == Answer("getTasksByStatus", getTasksByStatus("todo"))

StoreGetTasksByPriority == Answer("getTasksByPriority", getTasksByPriority("medium"))

StoreGetLogsByTag == Answer("getLogsByTag", getLogsByTag(TagWork))

StoreGetLogsByTags == Answer("getLogsByTags", getLogsByTags(<<TagWork, Taghome>>))

StoreGetAllTags == Answer("getAllTags", getAllTags)

StoreSearchLogs == Answer("searchLogs", searchLogs("MILK"))

StoreGetStats ==
    IF "habits" \in missing
    THEN /\ ret' = [op |-> "getStats", err |-> "TypeError", wrote |-> FALSE]
         /\ Quiet
    ELSE Answer("getStats", getStats)

StoreGetHabitStats ==
    IF "habits" \in missing \/ ~Has(habits, "ex")
    THEN /\ ret' = [op |-> "getHabitStats",
                    err |-> IF "habits" \in missing THEN "TypeError" ELSE "NotFound",
                    wrote |-> FALSE]
         /\ Quiet
    ELSE Answer("getHabitStats", getHabitStats("ex", 7))

\* after construction, whatever the storage is like and whatever it holds
InitStore ==
    /\ lenient = FALSE
    /\ storage \in {"available", "unavailable", "full"}
    /\ \E item \in IF storage = "available" THEN StoredItems ELSE {[present |-> FALSE]} :
           Constructor(item)

NextStore ==
    \/ StoreAddDailyLog
    \/ StoreUpdateDailyLog
    \/ StoreDeleteDailyLog
    \/ StoreUpdateTaskStatus
    \/ StoreUpdateTaskPriority
    \/ StoreAddTags
    \/ StoreRemoveTags
    \/ StoreAddMonthlyLog
    \/ CallUpdateMonthlyLog
    \/ CallDeleteMonthlyLog
    \/ StoreAddYearlyLog
    \/ CallUpdateYearlyLog
    \/ CallDeleteYearlyLog
    \/ CallCreateHabit
    \/ StoreLogHabit
    \/ CallDeleteHabit
    \/ StoreImportData
    \/ CallClearStorage
    \/ StoreGetDailyLog
    \/ StoreGetTasksByStatus
    \/ StoreGetTasksByPriority
    \/ StoreGetLogsByTag
    \/ StoreGetLogsByTags
    \/ StoreGetAllTags
    \/ StoreSearchLogs
    \/ CallGetHabitStreak
    \/ StoreGetHabitStats
    \/ StoreGetStats
    \/ CallExportData

\* every operation of the journal over every kind of storage
SpecStore == InitStore /\ [][NextStore]_vars

\* after construction over the snapshot release 1.0.0 left in storage
InitLegacy ==
    /\ lenient = FALSE
    /\ storage = "available"
    /\ Constructor([present |-> TRUE, data |-> LegacySnapshot])

NextLegacy ==
    \/ CallCreateHabit
    \/ StoreLogHabit
    \/ CallGetHabitStreak
    \/ StoreGetStats
    \/ StoreGetTasksByStatus
    \/ StoreGetTasksByPriority
    \/ StoreSearchLogs
    \/ AddDailyLogTagged
    \/ UpdateDailyLogTags
    \/ StoreUpdateTaskStatus
    \/ StoreUpdateTaskPriority

\* the journal of this release over the data of release 1.0.0
SpecLegacy == InitLegacy /\ [][NextLegacy]_vars

\* A task object whose priority and status are none of the listed ones.
TaskUrgent == [isString |-> FALSE, text |-> "call", priority |-> "urgent", status |-> "done"]

TasksAddDailyLog ==
    \E d \in {Date1, Date2}, t \in TaskInputs \cup {TaskUrgent} : addDailyLog(d, TaskEntry(t))

TasksUpdateDailyLog ==
    \E d \in {Date1, Date2}, t \in TaskInputs \cup {TaskUrgent} :
        updateDailyLog(d, [tasks |-> <<t>>])

NextTasks ==
    \/ TasksAddDailyLog
    \/ TasksUpdateDailyLog
    \/ CallUpdateTaskStatus
    \/ CallUpdateTaskPriority
    \/ StoreGetTasksByStatus
    \/ StoreGetTasksByPriority

\* the operations that store tasks and change their status and priority
SpecTasks == InitStrict /\ [][NextTasks]_vars

\* The keys callers pass to the daily log operations: two days and a name
\* that is no date.
DateKeys == {Date1, Date2, KeyConstructor}

\* The updates callers pass: another date, the same date with a task, notes only.
DateUpdates ==
    {[date |-> Date2],
     [date |-> Date1, tasks |-> <<[isString |-> TRUE, text |-> "buy milk"]>>],
     [notes |-> <<"n">>]}

DatesAddDailyLog ==
    \E d \in DateKeys, e \in {TagEntry(<<TagWork>>), TaskEntry(TaskUrgent)} :
        addDailyLog(d, e)

DatesUpdateDailyLog == \E d \in DateKeys, u \in DateUpdates : updateDailyLog(d, u)

DatesDeleteDailyLog == \E d \in DateKeys : deleteDailyLog(d)

NextDates ==
    \/ DatesAddDailyLog
    \/ DatesUpdateDailyLog
    \/ DatesDeleteDailyLog

\* adding, updating and deleting daily logs, from an empty journal
SpecDates == InitStrict /\ [][NextDates]_vars

Next ==
    NextHabit \/ NextTags \/ NextErr \/ NextDaily \/ NextImport \/ NextRegistry
        \/ NextStore \/ NextLegacy \/ NextTasks \/ NextDates

Spec == Init /\ [][Next]_vars

\* ------------------------------------------------------------------ claims

LogsOf(habitId) == IF Has(habitLogs, habitId) THEN Get(habitLogs, habitId) ELSE <<>>

\* the logged dates of the habit are exactly the n days ending today
RunEndingToday(habitId, n) ==
    KeySet(LogsOf(habitId)) = {ToISODate(today - i) : i \in 0..(n - 1)}

\* C1: when the logged dates of a habit are exactly the N >= 1 consecutive
\* calendar days ending today, getHabitStreak returns current = N.
C1_CurrentIsRunLength ==
    ret.op = "getHabitStreak" =>
        \A n \in 1..(MaxLogs + 1) :
            RunEndingToday(ret.habitId, n) => ret.val.current = n

C1_Witness ==
    /\ ret.op = "getHabitStreak"
    /\ RunEndingToday(ret.habitId, 3)
    /\ ret.val.current = 3

\* C2: when today is not logged, getHabitStreak returns current = 0, whatever
\* earlier days are logged.
C2_NoTodayNoStreak ==
    (ret.op = "getHabitStreak" /\ ~Has(LogsOf(ret.habitId), ToISODate(today)))
        => ret.val.current = 0

C2_Witness ==
    /\ ret.op = "getHabitStreak"
    /\ ~Has(LogsOf(ret.habitId), ToISODate(today))
    /\ Has(LogsOf(ret.habitId), ToISODate(today - 1))
    /\ Has(LogsOf(ret.habitId), ToISODate(today - 2))
    /\ ret.val.current = 0

\* the day counts of the logged dates that name a calendar day
CalendarDays(dates) ==
    {DateParse(s, FALSE).t : s \in {x \in dates : IsCalendarDate(x)}}

\* the length of the longest run of calendar-consecutive dates among a
\* non-empty set of logged dates (a logged date alone is a run of 1)
MaxRun(dates) ==
    LET days == CalendarDays(dates)
        IsRun(n) == \E t \in days : \A i \in 0..(n - 1) : (t - i) \in days
    IN  CHOOSE n \in 1..Cardinality(dates) :
            /\ n = 1 \/ IsRun(n)
            /\ \A k \in (n + 1)..Cardinality(dates) : ~IsRun(k)

\* C3: for a habit with at least one logged date, longest is the length of
\* the longest run of calendar-consecutive logged dates in its history.
C3_LongestIsMaxRun ==
    (ret.op = "getHabitStreak" /\ Len(LogsOf(ret.habitId)) >= 1)
        => ret.val.longest = MaxRun(KeySet(LogsOf(ret.habitId)))

\* the sequences that enumerate the set S, each element once
Orders(S) ==
    {f \in [1..Cardinality(S) -> S] : \A i, j \in 1..Cardinality(S) : f[i] = f[j] => i = j}

\* a log object holding the keys of the sequence, in that order
ObjectOf(keys) == [i \in 1..Len(keys) |-> [k |-> keys[i], v |-> TRUE]]

\* C4: longest and totalCompletions depend only on the set of dates logHabit
\* was given: whatever the order of the calls and however often a date was
\* logged, they are what any other order of the same dates gives.
C4_StreakOfTheSet ==
    (ret.op = "getHabitStreak" /\ logged[ret.habitId] # {}) =>
        /\ ret.val.totalCompletions = Cardinality(logged[ret.habitId])
        /\ \A o \in Orders(logged[ret.habitId]) :
               /\ StreakOf(ObjectOf(o), today, lenient).longest = ret.val.longest
               /\ StreakOf(ObjectOf(o), today, lenient).totalCompletions
                      = ret.val.totalCompletions

C4_Witness ==
    /\ ret.op = "getHabitStreak"
    /\ Len(LogsOf(ret.habitId)) = 3
    /\ Keys(LogsOf(ret.habitId)) # Sort(Keys(LogsOf(ret.habitId)))
    /\ Keys(LogsOf(ret.habitId)) # Reverse(Sort(Keys(LogsOf(ret.habitId))))
    /\ ret.val.longest = 3

\* 1000 * a / b rounded to the nearest integer, a half upwards
RoundedTenths(a, b) == (2000 * a + b) \div (2 * b)

\* C5: the statistics of a window of N days have completedDays + missedDays = N
\* and completionRate = 100 * completedDays / N rounded to one decimal place.
C5_RateIsRounded ==
    ret.op = "statsOf" =>
        /\ ret.val.completedDays + ret.val.missedDays = ret.days
        /\ ret.val.completionRate = RoundedTenths(ret.val.completedDays, ret.days)

\* the dates of the logs a tag query returned
DateSet(result) == {result[i].date : i \in 1..Len(result)}

\* C6: the dates getLogsByTags([a, b]) returns are exactly those that both
\* getLogsByTag(a) and getLogsByTag(b) return.
C6_TagsIsIntersection ==
    ret.op = "getLogsByTags" =>
        DateSet(ret.val) = DateSet(getLogsByTag(ret.tags[1]))
                               \cap DateSet(getLogsByTag(ret.tags[2]))

C6_Witness ==
    /\ ret.op = "getLogsByTags"
    /\ DateSet(getLogsByTag(ret.tags[1])) = {Date1, Date2}
    /\ DateSet(getLogsByTag(ret.tags[2])) = {Date2}
    /\ DateSet(ret.val) = {Date2}

\* C7: getLogsByTag gives the same result for "work" and "WORK" (and for
\* every other casing of the tag queried), whatever way a log was given the
\* tag "Work".
C7_QueryIgnoresCase ==
    ret.op = "getLogsByTag" =>
        \A t \in QueryTags :
            ToLowerCase(t) = ToLowerCase(ret.tag) => getLogsByTag(t) = ret.val

C7_Witness ==
    /\ ret.op = "getLogsByTag"
    /\ ret.tag = TagWORK
    /\ Has(dailyLogs, Date1) /\ Get(dailyLogs, Date1).tags = <<TagWork>>
    /\ Has(dailyLogs, Date2) /\ Includes(Get(dailyLogs, Date2).tags, Tagwork)
    /\ DateSet(ret.val) = {Date2}
    /\ getLogsByTag(Tagwork) = ret.val

\* C8: every tag stored in a DailyLog is lowercase, and no DailyLog holds two
\* tags that are equal ignoring case.
C8_TagsStoredLowercase ==
    \A n \in 1..Len(dailyLogs) :
        LET tags == dailyLogs[n].v.tags
        IN  /\ \A i \in 1..Len(tags) : tags[i] = ToLowerCase(tags[i])
            /\ \A i, j \in 1..Len(tags) :
                   ToLowerCase(tags[i]) = ToLowerCase(tags[j]) => i = j

\* the month of a date string of the form YYYY-MM-DD is none of 01..12
InvalidMonth(s) == isValidDate(s) /\ Num2(s, 6) \notin 1..12

\* C9: addDailyLog with a date whose month is invalid raises InvalidFormat,
\* and no log is stored for that date.
C9_InvalidMonthRejected ==
    (ret.op = "addDailyLog" /\ InvalidMonth(ret.date)) =>
        (ret.err = "InvalidFormat" /\ ~Has(dailyLogs, ret.date))

\* C10: a call that raises InvalidFormat, NotFound or AlreadyExists leaves the
\* whole aggregate as it was and writes nothing to storage.
C10_ErrorsChangeNothing ==
    [][ret'.err # "none" => (Data' = Data /\ stored' = stored /\ ~ret'.wrote)]_vars

C10_Witness ==
    /\ ret.op = "updateTaskStatus"
    /\ ret.err = "InvalidFormat"
    /\ Has(dailyLogs, Date1)
    /\ Has(habits, "ex")
    /\ stored = saveToStorage(Data)

\* JSON.parse rejects the text, or the text is null
Malformed(text) == ~text.ok \/ text.json.t = "null"

\* C11: importData given a malformed document raises InvalidFormat, leaves
\* all five collections as they were and writes nothing to storage.
C11_MalformedImportChangesNothing ==
    [][(ret'.op = "importData" /\ Malformed(ret'.doc)) =>
          /\ ret'.err = "InvalidFormat"
          /\ ~ret'.wrote
          /\ Data' = Data
          /\ stored' = stored]_vars

C11_Witness ==
    /\ ret.op = "importData"
    /\ ret.doc = Garbage
    /\ ret.err = "InvalidFormat"
    /\ missing = {}
    /\ Has(dailyLogs, Date1) /\ Has(dailyLogs, Date2)
    /\ Has(monthlyLogs, Month1) /\ Has(yearlyLogs, Year1)
    /\ Has(habits, "ex") /\ Len(LogsOf("ex")) = 1
    /\ stored = saveToStorage(Data)

\* C12: importData(exportData()) leaves the aggregate as it was: the same
\* collections with the same keys and the same nested values.
C12_ImportExportIsIdentity ==
    [][(ret'.op = "importData" /\ ret'.doc = exportData) =>
          (ret'.err = "none" /\ Data' = Data)]_vars

C20_LogCollectionsMatchHabits == KeySet(habitLogs) = KeySet(habits)

C20_Witness ==
    /\ ret.op = "logHabit"
    /\ ret.err = "NotFound"
    /\ KeySet(habits) = {"read"}
    /\ KeySet(habitLogs) = {"read"}
    /\ Len(LogsOf("read")) = 2
    /\ stored.present /\ stored.data = JSONstringify(Data, 0)

\* the operations that change the journal, and those that only read it
MutatingOps ==
    {"addDailyLog", "updateDailyLog", "deleteDailyLog", "updateTaskStatus",
     "updateTaskPriority", "addTags", "removeTags", "addMonthlyLog", "updateMonthlyLog",
     "deleteMonthlyLog", "addYearlyLog", "updateYearlyLog", "deleteYearlyLog",
     "createHabit", "logHabit", "deleteHabit", "importData", "clearStorage"}

ReadOps ==
    {"getDailyLog", "getTasksByStatus", "getTasksByPriority", "getLogsByTag",
     "getLogsByTags", "getAllTags", "searchLogs", "getHabitStreak", "getHabitStats",
     "getStats", "exportData"}

\* the call r changed the journal: it raised nothing, and a delete found its key
Mutated(r) ==
    /\ r.op \in MutatingOps
    /\ r.err = "none"
    /\ r.op \in {"deleteDailyLog", "deleteMonthlyLog", "deleteYearlyLog", "deleteHabit"}
           => r.val

\* the aggregate a constructor would load from what storage holds now
Persisted ==
    LET node == loadFromStorage(stored)
    IN  IF Falsy(node) THEN [c \in Range(Collections) |-> <<>>]
        ELSE [c \in {x \in Range(Collections) : Prop(node, x).t # "undefined"} |->
                 Loaded(node, c)]

\* C14: when storage is available and writes succeed, after every successful
\* mutating operation the persisted snapshot is the whole in-memory
\* aggregate; and no read operation writes to storage.
C14_SnapshotFollowsMutations ==
    /\ []((storage = "available" /\ Mutated(ret)) => (stored.present /\ Persisted = Data))
    /\ [][ret'.op \in ReadOps => stored' = stored]_vars

C14_Witness ==
    /\ storage = "available"
    /\ ret.op = "updateTaskStatus"
    /\ ret.err = "none"
    /\ Has(dailyLogs, Date1) /\ Get(dailyLogs, Date1).tasks[1].status = "completed"
    /\ Has(monthlyLogs, Month1)
    /\ Has(habits, "ex") /\ Len(LogsOf("ex")) = 1
    /\ Persisted = Data

\* the answer of a task query reports the task at index i (from 0) of the log
\* of the date with the value x of the property field
Reports(answer, date, i, field, x) ==
    \E j \in 1..Len(answer) :
        /\ answer[j].date = date
        /\ answer[j].index = i
        /\ field \in DOMAIN answer[j]
        /\ answer[j][field] = x

\* C15: over stored v1.0.0 data the habit operations succeed as on an empty
\* habit set, and getTasksByStatus('todo') and getTasksByPriority('medium')
\* report every task that is stored as a plain string.
C15_LegacyDataWorks ==
    /\ ret.op \in {"createHabit", "logHabit", "getHabitStreak", "getStats"}
           => ret.err # "TypeError"
    /\ \A n \in 1..Len(dailyLogs) :
           \A i \in 1..Len(dailyLogs[n].v.tasks) :
               "isString" \in DOMAIN dailyLogs[n].v.tasks[i] =>
                   /\ ret.op = "getTasksByStatus"
                          => Reports(ret.val, dailyLogs[n].k, i - 1, "status", "todo")
                   /\ ret.op = "getTasksByPriority"
                          => Reports(ret.val, dailyLogs[n].k, i - 1, "priority", "medium")

\* C16: every task stored in every daily log has a priority among low,
\* medium, high and a status among todo, in-progress, completed, cancelled.
C16_TaskEnumsValid ==
    \A n \in 1..Len(dailyLogs) :
        \A i \in 1..Len(dailyLogs[n].v.tasks) :
            /\ dailyLogs[n].v.tasks[i].priority \in validPriorities
            /\ dailyLogs[n].v.tasks[i].status \in validStatuses

C18_StreaksAreOrdered ==
    (ret.op = "getHabitStreak" /\ ret.err = "none" /\ Len(LogsOf(ret.habitId)) >= 1) =>
        /\ ret.val.current <= ret.val.longest
        /\ ret.val.longest <= ret.val.totalCompletions

\* C19: getHabitStats(habitId, N) returns 0 <= completedDays <= N, missedDays
\* >= 0 and a completionRate from 0 to 100 (from 0 to 1000 tenths).
C19_StatsWithinWindow ==
    (ret.op = "getHabitStats" /\ ret.err = "none") =>
        /\ ret.val.completedDays \in 0..ret.days
        /\ ret.val.missedDays >= 0
        /\ ret.val.completionRate \in 0..1000

\* every stored daily log carries the key it is stored under
DateIsKey == \A i \in 1..Len(dailyLogs) : dailyLogs[i].v.date = dailyLogs[i].k

\* updateDailyLog leaves the keys, and their order, as they were
UpdateKeepsKeys ==
    [][ret'.op = "updateDailyLog" => Keys(dailyLogs') = Keys(dailyLogs)]_vars

\* C21: after any sequence of addDailyLog, updateDailyLog and deleteDailyLog
\* calls every stored daily log's date field equals the key it is stored
\* under, whatever date the updates carry, and updateDailyLog never creates,
\* moves or removes a key.
C21_DateFieldIsKey == []DateIsKey /\ UpdateKeepsKeys

====
